---- MODULE Spec2Model ----
(***************************************************************************)
(* Model of battery.py: class Battery, a register client for a smart       *)
(* battery on an SMBus.  The object holds a bus handle and a device        *)
(* address; every method issues transactions on the bus and decodes the    *)
(* bytes the bus hands back.  The bus (module smbus) is the environment:   *)
(* each transaction is answered with a byte sequence or with a failure,    *)
(* chosen nondeterministically.                                            *)
(***************************************************************************)
EXTENDS Integers, Sequences, FiniteSets, TLC

VARIABLES
    client,     \* "none": no object yet, "ready": constructed, "failed": __init__ raised
    bus,        \* self.bus, Unset while the attribute does not exist
    busAddr,    \* self.busAddr, Unset while the attribute does not exist
    busOpen,    \* environment: the bus was opened by smbus.SMBus(nBus)
    ctorAddr,   \* the address argument handed to the constructor
    ncalls,     \* number of method calls made on the object so far
    lastCall,   \* the most recent call: [op, comm, arg]
    txns,       \* the bus transactions issued by the most recent call
    resp,       \* what the bus answered to the most recent call's transaction
    outcome     \* how the most recent call ended: value, None or raise

vars == <<client, bus, busAddr, busOpen, ctorAddr, ncalls, lastCall, txns, resp, outcome>>

----------------------------------------------------------------------------
(* Bounds of the model, and the values the calls are made with *)

MaxCalls == 3       \* calls made on one object in one run
MaxNBytes == 40     \* largest nBytes handed to BlockRead
MaxBlockBytes == 32 \* "Reads a maximum of 32 bytes" (BlockRead docstring)

Unset == -1

Bytes == 0 .. 255
SampleBytes == {1, 240, 255}
Addresses == {11, 12}
BusIds == {0, 1}
Commands == {5, 32}
NByteChoices == {1, 2, 3, MaxBlockBytes, MaxBlockBytes + 1, MaxNBytes}

----------------------------------------------------------------------------
(* Python integer operators used by the decode *)

RECURSIVE BitOr(_, _)
BitOr(a, b) ==
    IF a = 0 THEN b
    ELSE IF b = 0 THEN a
    ELSE (IF a % 2 = 1 \/ b % 2 = 1 THEN 1 ELSE 0) + 2 * BitOr(a \div 2, b \div 2)

Shl(x, n) == x * (2 ^ n)
Shr(x, n) == x \div (2 ^ n)

----------------------------------------------------------------------------
(* Outcomes of a call and answers of the bus *)

Return(v) == [kind |-> "value", val |-> v, err |-> ""]
ReturnNone == [kind |-> "None", val |-> 0, err |-> ""]
Raise(e) == [kind |-> "raise", val |-> 0, err |-> e]
NoOutcome == [kind |-> "idle", val |-> 0, err |-> ""]

\* errors raised by the bus module, named after what they report
BusTransactionFailed == "BusTransactionFailed"
TransportUnavailable == "TransportUnavailable"

Data(d) == [kind |-> "data", data |-> d]
Fail == [kind |-> "fail", data |-> <<>>]
Ack == [kind |-> "ack", data |-> <<>>]
NoResp == [kind |-> "none", data |-> <<>>]

Block(len, b0, b1, f) ==
    [i \in 1 .. len |-> IF i = 1 THEN b0 ELSE IF i = 2 THEN b1 ELSE f]

\* answers to read_byte_data: failure, or zero, one or two bytes
WordResponses ==
    {Fail, Data(<<>>)}
    \cup {Data(<<b>>) : b \in SampleBytes}
    \cup {Data(<<b0, b1>>) : b0 \in SampleBytes, b1 \in SampleBytes}

BlockLengths(nBytes) == {n \in {0, 1, 2, 3, nBytes} : n <= nBytes}

\* answers to read_block_data(.., nBytes): failure, or at most nBytes bytes
BlockResponses(nBytes) ==
    {Fail}
    \cup {Data(Block(n, b0, b1, f)) :
            n \in BlockLengths(nBytes), b0 \in SampleBytes,
            b1 \in SampleBytes, f \in SampleBytes}

WriteResponses == {Fail, Ack}

Txn(kind, comm, arg) == [kind |-> kind, addr |-> busAddr, comm |-> comm, arg |-> arg]

----------------------------------------------------------------------------
(* The methods of class Battery.  Each yields the transactions it issued   *)
(* and the way it ended; r is the answer of the bus to its transaction.    *)

\* variant: the address is stored before the bus is opened and the failure is caught
BatteryInitSwallow(address, nBus, opened) ==
    IF opened
    THEN [bus |-> nBus, busAddr |-> address, out |-> ReturnNone]
    ELSE [bus |-> Unset, busAddr |-> address, out |-> ReturnNone]

\* variant: the constructor's arguments are stored the wrong way round
BatteryInitSwapped(address, nBus, opened) ==
    IF opened
    THEN [bus |-> address, busAddr |-> nBus, out |-> ReturnNone]
    ELSE [bus |-> Unset, busAddr |-> Unset, out |-> Raise(TransportUnavailable)]

\* __init__: self.bus = smbus.SMBus(nBus); self.busAddr = address
BatteryInit(address, nBus, opened) ==
    IF opened
    THEN [bus |-> nBus, busAddr |-> address, out |-> ReturnNone]
    ELSE [bus |-> Unset, busAddr |-> Unset, out |-> Raise(TransportUnavailable)]

\* self.bus.write_byte_data(self.busAddr, comm, word)
WriteWord(comm, word, r) ==
    LET t == <<Txn("write_byte_data", comm, word)>> IN
    IF r.kind = "fail"
    THEN [txns |-> t, out |-> Raise(BusTransactionFailed)]
    ELSE [txns |-> t, out |-> ReturnNone]

\* variant: the low byte is merged without the shift
ReadWordNoShift(comm, r) ==
    LET t == <<Txn("read_byte_data", comm, 0)>> IN
    IF r.kind = "fail"
    THEN [txns |-> t, out |-> Raise(BusTransactionFailed)]
    ELSE LET data == r.data IN
         IF Len(data) < 2
         THEN [txns |-> t, out |-> Raise("IndexError")]
         ELSE LET msb == data[2]
                  lsb == data[1]
              IN  [txns |-> t, out |-> Return(BitOr(Shl(msb, 8), lsb))]

\* variant: a failed transaction is caught and a default word returned
ReadWordSwallow(comm, r) ==
    LET t == <<Txn("read_byte_data", comm, 0)>> IN
    IF r.kind = "fail"
    THEN [txns |-> t, out |-> Return(0)]
    ELSE LET data == r.data IN
         IF Len(data) < 2
         THEN [txns |-> t, out |-> Raise("IndexError")]
         ELSE LET msb == data[2]
                  lsb == data[1]
              IN  [txns |-> t, out |-> Return(BitOr(Shl(msb, 8), Shr(lsb, 4)))]

\* variant: the word of the previous call is kept and handed out again
ReadWordCached(comm, r) ==
    LET t == <<Txn("read_byte_data", comm, 0)>> IN
    IF outcome.kind = "value"
    THEN [txns |-> <<>>, out |-> outcome]
    ELSE IF r.kind = "fail"
    THEN [txns |-> t, out |-> Raise(BusTransactionFailed)]
    ELSE LET data == r.data IN
         IF Len(data) < 2
         THEN [txns |-> t, out |-> Raise("IndexError")]
         ELSE LET msb == data[2]
                  lsb == data[1]
              IN  [txns |-> t, out |-> Return(BitOr(Shl(msb, 8), Shr(lsb, 4)))]

\* data = self.bus.read_byte_data(self.busAddr, comm)
\* msb = data[1]; lsb = data[0]; return ((msb << 8) | (lsb >> 4))
ReadWord(comm, r) ==
    LET t == <<Txn("read_byte_data", comm, 0)>> IN
    IF r.kind = "fail"
    THEN [txns |-> t, out |-> Raise(BusTransactionFailed)]
    ELSE LET data == r.data IN
         IF Len(data) < 2
         THEN [txns |-> t, out |-> Raise("IndexError")]
         ELSE LET msb == data[2]
                  lsb == data[1]
              IN  [txns |-> t, out |-> Return(BitOr(Shl(msb, 8), Shr(lsb, 4)))]

\* variant: the high byte is taken from the end of the block
BlockReadLastByte(comm, nBytes, r) ==
    LET t == <<Txn("read_block_data", comm, nBytes)>> IN
    IF r.kind = "fail"
    THEN [txns |-> t, out |-> Raise(BusTransactionFailed)]
    ELSE LET data == r.data IN
         IF Len(data) < 2
         THEN [txns |-> t, out |-> Raise("IndexError")]
         ELSE LET msb == data[Len(data)]
                  lsb == data[1]
              IN  [txns |-> t, out |-> Return(BitOr(Shl(msb, 8), Shr(lsb, 4)))]

\* variant: missing bytes of a short block are read as zero
BlockReadPadded(comm, nBytes, r) ==
    LET t == <<Txn("read_block_data", comm, nBytes)>> IN
    IF r.kind = "fail"
    THEN [txns |-> t, out |-> Raise(BusTransactionFailed)]
    ELSE LET data == r.data
             msb == IF Len(data) >= 2 THEN data[2] ELSE 0
             lsb == IF Len(data) >= 1 THEN data[1] ELSE 0
         IN  [txns |-> t, out |-> Return(BitOr(Shl(msb, 8), Shr(lsb, 4)))]

\* data = self.bus.read_block_data(self.busAddr, comm, nBytes)
\* msb = data[1]; lsb = data[0]; return ((msb << 8) | (lsb >> 4))
BlockRead(comm, nBytes, r) ==
    LET t == <<Txn("read_block_data", comm, nBytes)>> IN
    IF r.kind = "fail"
    THEN [txns |-> t, out |-> Raise(BusTransactionFailed)]
    ELSE LET data == r.data IN
         IF Len(data) < 2
         THEN [txns |-> t, out |-> Raise("IndexError")]
         ELSE LET msb == data[2]
                  lsb == data[1]
              IN  [txns |-> t, out |-> Return(BitOr(Shl(msb, 8), Shr(lsb, 4)))]

\* self.ReadWord() with the comm argument missing: TypeError before any transaction
ReadWordNoArg == [txns |-> <<>>, out |-> Raise("TypeError")]

\* f(x) where f is the result of an earlier call: an int is not callable
CallResult(res, arg) ==
    IF res.out.kind = "raise" THEN res ELSE [res EXCEPT !.out = Raise("TypeError")]

\* "return e": the method ends as e ended
ReturnStmt(res) == res

\* "e" as a statement at the end of a method: the value is dropped, None is returned
ExprStmt(res) ==
    IF res.out.kind = "raise" THEN res ELSE [res EXCEPT !.out = ReturnNone]

AtRateTimeToFull(r) == ReturnStmt(ReadWord(5, r))

AtRateTimeToEmpty(r) == ReturnStmt(ReadWord(6, r))

Temperature(r) == ReturnStmt(ReadWord(8, r))

Voltage(r) == ReturnStmt(ReadWord(9, r))

Current(r) == ReturnStmt(ReadWord(10, r))

AverageCurrent(r) == ReturnStmt(ReadWord(11, r))

MaxError(r) == ReturnStmt(ReadWord(12, r))

RelativeStateOfCharge(r) == ReturnStmt(ReadWord(13, r))

AbsoluteStateOfCharge(r) == ReturnStmt(ReadWord(14, r))

RemainingCapacity(r) == ReturnStmt(ReadWord(15, r))

FullChargeCapacity(r) == ExprStmt(CallResult(ReadWordNoArg, 16))

RunTimeToEmpty(r) == ExprStmt(CallResult(ReadWordNoArg, 17))

AverageTimeToEmpty(r) == ExprStmt(ReadWord(18, r))

AverageTimeToFull(r) == ExprStmt(CallResult(ReadWordNoArg, 19))

ChargingCurrent(r) == ExprStmt(ReadWord(20, r))

ChargingVoltage(r) == ExprStmt(ReadWord(21, r))

BatteryStatus(r) == ExprStmt(ReadWord(22, r))

CycleCount(r) == ExprStmt(ReadWord(23, r))

DesignCapacity(r) == ExprStmt(ReadWord(24, r))

DesignVoltage(r) == ExprStmt(ReadWord(25, r))

SerialNumber(r) == ExprStmt(ReadWord(28, r))

Accessors ==
    {"AtRateTimeToFull", "AtRateTimeToEmpty", "Temperature",
     "Voltage", "Current", "AverageCurrent",
     "MaxError", "RelativeStateOfCharge", "AbsoluteStateOfCharge",
     "RemainingCapacity", "FullChargeCapacity", "RunTimeToEmpty",
     "AverageTimeToEmpty", "AverageTimeToFull", "ChargingCurrent",
     "ChargingVoltage", "BatteryStatus", "CycleCount",
     "DesignCapacity", "DesignVoltage", "SerialNumber"}

\* the method a caller invokes by name
Accessor(name, r) ==
    CASE name = "AtRateTimeToFull" -> AtRateTimeToFull(r)
      [] name = "AtRateTimeToEmpty" -> AtRateTimeToEmpty(r)
      [] name = "Temperature" -> Temperature(r)
      [] name = "Voltage" -> Voltage(r)
      [] name = "Current" -> Current(r)
      [] name = "AverageCurrent" -> AverageCurrent(r)
      [] name = "MaxError" -> MaxError(r)
      [] name = "RelativeStateOfCharge" -> RelativeStateOfCharge(r)
      [] name = "AbsoluteStateOfCharge" -> AbsoluteStateOfCharge(r)
      [] name = "RemainingCapacity" -> RemainingCapacity(r)
      [] name = "FullChargeCapacity" -> FullChargeCapacity(r)
      [] name = "RunTimeToEmpty" -> RunTimeToEmpty(r)
      [] name = "AverageTimeToEmpty" -> AverageTimeToEmpty(r)
      [] name = "AverageTimeToFull" -> AverageTimeToFull(r)
      [] name = "ChargingCurrent" -> ChargingCurrent(r)
      [] name = "ChargingVoltage" -> ChargingVoltage(r)
      [] name = "BatteryStatus" -> BatteryStatus(r)
      [] name = "CycleCount" -> CycleCount(r)
      [] name = "DesignCapacity" -> DesignCapacity(r)
      [] name = "DesignVoltage" -> DesignVoltage(r)
      [] name = "SerialNumber" -> SerialNumber(r)

----------------------------------------------------------------------------
(* Actions: one per call a user of the class can make *)

NoCall == [op |-> "none", comm |-> 0, arg |-> 0]

Init ==
    /\ client = "none"
    /\ bus = Unset
    /\ busAddr = Unset
    /\ busOpen = FALSE
    /\ ctorAddr = Unset
    /\ ncalls = 0
    /\ lastCall = NoCall
    /\ txns = <<>>
    /\ resp = NoResp
    /\ outcome = NoOutcome

\* Battery(address, nBus)
Construct ==
    /\ client = "none"
    /\ \E address \in Addresses, nBus \in BusIds, opened \in BOOLEAN :
         LET res == BatteryInit(address, nBus, opened) IN
         /\ bus' = res.bus
         /\ busAddr' = res.busAddr
         /\ outcome' = res.out
         /\ client' = IF res.out.kind = "raise" THEN "failed" ELSE "ready"
         /\ busOpen' = opened
         /\ ctorAddr' = address
         /\ lastCall' = [op |-> "Battery", comm |-> 0, arg |-> nBus]
         /\ resp' = IF opened THEN Ack ELSE Fail
    /\ txns' = <<>>
    /\ UNCHANGED ncalls

\* what every method call does to the state, given how the method ran
Finish(call, res, r) ==
    /\ lastCall' = call
    /\ txns' = res.txns
    /\ outcome' = res.out
    /\ resp' = IF res.txns = <<>> THEN NoResp ELSE r
    /\ ncalls' = ncalls + 1
    /\ UNCHANGED <<client, bus, busAddr, busOpen, ctorAddr>>

CallWriteWord ==
    /\ client = "ready"
    /\ ncalls < MaxCalls
    /\ \E comm \in Commands, word \in SampleBytes, r \in WriteResponses :
         Finish([op |-> "WriteWord", comm |-> comm, arg |-> word],
                WriteWord(comm, word, r), r)

CallReadWord ==
    /\ client = "ready"
    /\ ncalls < MaxCalls
    /\ \E comm \in Commands, r \in WordResponses :
         Finish([op |-> "ReadWord", comm |-> comm, arg |-> 0], ReadWord(comm, r), r)

CallBlockRead ==
    /\ client = "ready"
    /\ ncalls < MaxCalls
    /\ \E comm \in Commands, nBytes \in NByteChoices :
         \E r \in BlockResponses(nBytes) :
            Finish([op |-> "BlockRead", comm |-> comm, arg |-> nBytes],
                   BlockRead(comm, nBytes, r), r)

CallAccessor ==
    /\ client = "ready"
    /\ ncalls < MaxCalls
    /\ \E name \in Accessors, r \in WordResponses :
         Finish([op |-> name, comm |-> 0, arg |-> 0], Accessor(name, r), r)

Next ==
    \/ Construct
    \/ CallWriteWord
    \/ CallReadWord
    \/ CallBlockRead
    \/ CallAccessor

Spec == Init /\ [][Next]_vars

----------------------------------------------------------------------------
(* The decode on every pair of bytes: the object is constructed and the    *)
(* bus holds the answer it is about to give; one call consumes it.         *)

FullWordResponses == {Data(<<b0, b1>>) : b0 \in Bytes, b1 \in Bytes}

FullBlockResponses ==
    {Data(Block(n, b0, b1, f)) :
        n \in {3, MaxBlockBytes}, b0 \in Bytes, b1 \in Bytes, f \in {0, 255}}

InitDecode ==
    /\ client = "ready"
    /\ bus = 1
    /\ busAddr = 11
    /\ busOpen = TRUE
    /\ ctorAddr = 11
    /\ ncalls = 0
    /\ lastCall = NoCall
    /\ txns = <<>>
    /\ outcome = NoOutcome
    /\ resp \in FullWordResponses \cup FullBlockResponses

ReadStagedWord ==
    /\ lastCall = NoCall
    /\ Len(resp.data) = 2
    /\ Finish([op |-> "ReadWord", comm |-> 5, arg |-> 0], ReadWord(5, resp), resp)

ReadStagedBlock ==
    /\ lastCall = NoCall
    /\ Len(resp.data) <= MaxBlockBytes
    /\ Finish([op |-> "BlockRead", comm |-> 5, arg |-> MaxBlockBytes],
              BlockRead(5, MaxBlockBytes, resp), resp)

NextDecode ==
    \/ ReadStagedWord
    \/ ReadStagedBlock

SpecDecode == InitDecode /\ [][NextDecode]_vars

----------------------------------------------------------------------------
(* Properties *)

\* the word two bytes stand for: (msb << 8) | (lsb >> 4), as arithmetic
WordOf(lsb, msb) == msb * 256 + lsb \div 16

\* the register catalog: accessor name to command code
DocumentedCode(name) ==
    CASE name = "AtRateTimeToFull" -> 5
      [] name = "AtRateTimeToEmpty" -> 6
      [] name = "Temperature" -> 8
      [] name = "Voltage" -> 9
      [] name = "Current" -> 10
      [] name = "AverageCurrent" -> 11
      [] name = "MaxError" -> 12
      [] name = "RelativeStateOfCharge" -> 13
      [] name = "AbsoluteStateOfCharge" -> 14
      [] name = "RemainingCapacity" -> 15
      [] name = "FullChargeCapacity" -> 16
      [] name = "RunTimeToEmpty" -> 17
      [] name = "AverageTimeToEmpty" -> 18
      [] name = "AverageTimeToFull" -> 19
      [] name = "ChargingCurrent" -> 20
      [] name = "ChargingVoltage" -> 21
      [] name = "BatteryStatus" -> 22
      [] name = "CycleCount" -> 23
      [] name = "DesignCapacity" -> 24
      [] name = "DesignVoltage" -> 25
      [] name = "SerialNumber" -> 28

\* the bus answered the last call's transaction with fewer than two bytes
ShortAnswer == txns # <<>> /\ resp.kind = "data" /\ Len(resp.data) < 2

\* the bus answered the last call's transaction with at least two bytes
FullAnswer == txns # <<>> /\ resp.kind = "data" /\ Len(resp.data) >= 2

\* C1: for every pair of bytes (lsb, msb) the bus returns to the single-register
\* read, ReadWord returns exactly (msb << 8) | (lsb >> 4); 0xF0, 0x01 gives 0x10F.
C1_WordDecode ==
    /\ (lastCall.op = "ReadWord" /\ resp.kind = "data" /\ Len(resp.data) = 2)
          => outcome = Return(WordOf(resp.data[1], resp.data[2]))
    /\ (lastCall.op = "ReadWord" /\ resp = Data(<<240, 1>>))
          => outcome = Return(271)

C1_Witness ==
    /\ lastCall.op = "ReadWord"
    /\ resp = Data(<<240, 1>>)
    /\ outcome = Return(271)

\* C2: every one of the 21 accessors, when the read succeeds, returns the decoded
\* word to its caller; none completes returning nothing.
C2_AccessorsReturnWord ==
    lastCall.op \in Accessors =>
        /\ outcome.kind # "None"
        /\ FullAnswer => outcome = Return(WordOf(resp.data[1], resp.data[2]))

\* C3: every accessor call issues exactly one bus transaction, a register read
\* with the accessor's documented command code.
C3_OneTransactionWithCode ==
    lastCall.op \in Accessors =>
        /\ Len(txns) = 1
        /\ txns[1].kind = "read_byte_data"
        /\ txns[1].comm = DocumentedCode(lastCall.op)

\* C4: when the bus fails the transaction of an accessor, ReadWord, BlockRead or
\* WriteWord call, the call raises the bus failure to its caller, yields no
\* value and issues no second transaction.
C4_FailurePropagates ==
    (txns # <<>> /\ resp.kind = "fail") =>
        /\ lastCall.op \in Accessors \cup {"ReadWord", "BlockRead", "WriteWord"}
        /\ outcome = Raise(BusTransactionFailed)
        /\ Len(txns) = 1

C4_Witness ==
    /\ lastCall.op = "SerialNumber"
    /\ Len(txns) = 1
    /\ resp.kind = "fail"
    /\ outcome = Raise(BusTransactionFailed)

\* C5: BlockRead never issues a block transaction asking for more than 32 bytes.
C5_BlockBounded ==
    \A i \in DOMAIN txns :
        txns[i].kind = "read_block_data" => txns[i].arg <= MaxBlockBytes

C7_OpenFailure ==
    /\ (client # "none" /\ ~busOpen) =>
          /\ client = "failed"
          /\ outcome = Raise(TransportUnavailable)
          /\ bus = Unset
          /\ busAddr = Unset
          /\ txns = <<>>
          /\ ncalls = 0
    /\ ~(busAddr # Unset /\ bus = Unset)

C7_Witness ==
    /\ client = "failed"
    /\ ~busOpen
    /\ lastCall.op = "Battery"
    /\ outcome = Raise(TransportUnavailable)

\* C8: for every returned block of two or more bytes BlockRead returns what
\* ReadWord returns for the block's first two bytes, whatever follows them.
C8_BlockAsWord ==
    (lastCall.op = "BlockRead" /\ resp.kind = "data" /\ Len(resp.data) >= 2) =>
        /\ outcome = Return(WordOf(resp.data[1], resp.data[2]))
        /\ outcome = ReadWord(lastCall.comm, Data(SubSeq(resp.data, 1, 2))).out

C8_Witness ==
    /\ lastCall.op = "BlockRead"
    /\ Len(resp.data) = MaxBlockBytes
    /\ resp.data[1] = 240 /\ resp.data[2] = 1 /\ resp.data[3] = 255
    /\ outcome = Return(271)

\* the accessors whose body is "return self.ReadWord(code)"
ReturningAccessors ==
    {"AtRateTimeToFull", "AtRateTimeToEmpty", "Temperature", "Voltage", "Current",
     "AverageCurrent", "MaxError", "RelativeStateOfCharge", "AbsoluteStateOfCharge",
     "RemainingCapacity"}

\* C9: whatever calls came before, an accessor call that succeeds made one fresh
\* transaction and its result is fixed by the accessor and the bytes answered.
C9_NoCaching ==
    (lastCall.op \in Accessors /\ outcome.kind # "raise") =>
        /\ Len(txns) = 1
        /\ FullAnswer
        /\ outcome = IF lastCall.op \in ReturningAccessors
                     THEN Return(WordOf(resp.data[1], resp.data[2]))
                     ELSE ReturnNone

C9_Witness ==
    /\ ncalls = MaxCalls
    /\ lastCall.op = "Voltage"
    /\ resp = Data(<<240, 1>>)
    /\ outcome = Return(271)

\* C10: no method call changes the stored bus handle or address, and every
\* transaction goes to the address passed to the constructor.
C10_HandleFixed ==
    [][ /\ client = "ready" => (bus' = bus /\ busAddr' = busAddr /\ ctorAddr' = ctorAddr)
        /\ client' = "ready" => (busAddr' = ctorAddr' /\ bus' # Unset)
        /\ \A i \in DOMAIN txns' : txns'[i].addr = ctorAddr' ]_vars

C10_Witness ==
    /\ client = "ready"
    /\ ncalls = MaxCalls
    /\ lastCall.op = "WriteWord"
    /\ Len(txns) = 1
    /\ txns[1].addr = ctorAddr
    /\ busAddr = ctorAddr

====
